---- MODULE Spec2Model ----
(***************************************************************************)
(* A model of rgx's core layer (src/src/core/mod.rs): the Device resource  *)
(* factory, the Renderer, and the Frame / Pass command-recording cycle.    *)
(*                                                                         *)
(* The wgpu backend is the environment.  Every call the core makes into it *)
(* that a client can observe (queue submission, map_read_async, the call   *)
(* of a read-back callback) is appended to `trace`.  A panic of the core   *)
(* (assert_eq!, panic!, arithmetic overflow in a build with overflow       *)
(* checks) is recorded in `panic`; a panicked program takes no more steps. *)
(*                                                                         *)
(* Rust's borrow rules are part of the program: a Frame holds a mutable    *)
(* borrow of its Renderer and a Pass holds a mutable borrow of its Frame,  *)
(* so the guards of the actions state which calls the compiler accepts.    *)
(*                                                                         *)
(* Byte counts that can reach 2^32 are kept as records [quads, rem],       *)
(* standing for 4 * quads + rem bytes with rem in 0..3, so that 32-bit     *)
(* wrap-around (2^32 bytes = 2^30 quads) stays inside the integers the     *)
(* model checker handles.                                                  *)
(***************************************************************************)
EXTENDS Integers, Sequences, FiniteSets, TLC

\* ------------------------------------------------------------------------
\* Bounds of the model
\* ------------------------------------------------------------------------

\* resources (textures, framebuffers, layouts, binding groups, uniform buffers,
\* pipelines) made in one run
MaxResources == 3
\* calls a client makes in one run, the drops of its Frames and Passes included
MaxCalls == 6
\* vertex formats in one vertex layout
MaxFormats == 3

\* ------------------------------------------------------------------------
\* Values
\* ------------------------------------------------------------------------

\* Option<T>: None is the empty sequence, Some(x) the sequence of x alone
None == << >>

Some(x) == << x >>

NoPanic == "none"

\* 2^32 bytes, counted in 4-byte quads
TwoPow30 == 2^30

\* the largest integer below which every u32 -> f32 conversion is exact
TwoPow24 == 2^24

\* a byte slice &[u8], by its length 4 * quads + rem
Bytes(q, r) == [quads |-> q, rem |-> r]

IsEmpty(texels) == texels.quads = 0 /\ texels.rem = 0

\* (w, h) pairs offered to the Device; each product w * h is below 2^31
WideDims ==
    { <<0, 0>>, <<1, 1>>, <<2, 1>>, <<2, 2>>, <<32768, 32768>>, <<16777217, 1>> }

\* texel slices offered to the Device: 0, 3, 4, 8, 16 bytes, 4 * 16777217
\* bytes, 2^32 bytes and 2^32 + 16 bytes
WideTexels ==
    { Bytes(0, 0), Bytes(0, 3), Bytes(1, 0), Bytes(2, 0), Bytes(4, 0),
      Bytes(16777217, 0), Bytes(TwoPow30, 0), Bytes(TwoPow30 + 4, 0) }

\* (w, h) pairs and texel slices (0, 3, 4 and 16 bytes) offered for
\* framebuffers
FramebufferDims == { <<1, 1>>, <<2, 2>> }

FramebufferTexels == { Bytes(0, 0), Bytes(0, 3), Bytes(1, 0), Bytes(4, 0) }

\* the size of the window at Renderer::new, and the sizes it is resized to
WindowSize == <<2, 1>>

WindowDims == { <<1, 1>>, <<2, 1>> }

Colors == { "TRANSPARENT", "WHITE" }

\* ------------------------------------------------------------------------
\* State
\* ------------------------------------------------------------------------

VARIABLES
    overflow_checks,  \* the build: TRUE when integer overflow panics (debug)
    panic,            \* NoPanic, or the message of the panic that ended the run
    textures,         \* Seq of Texture, in creation order
    framebuffers,     \* Seq of Framebuffer, in creation order
    layouts,          \* Seq of BindingGroupLayout
    groups,           \* Seq of BindingGroup
    uniforms,         \* Seq of UniformBuffer
    pipelines,        \* Seq of pipelines made by Renderer::pipeline
    swap_chain,       \* Renderer.swap_chain: the descriptor it was made from
    frames,           \* Seq of Frame: every Frame handed out, in order
    mappings,         \* Seq of buffer mappings asked of the backend
    trace,            \* what crossed the backend boundary, in order
    last,             \* the last call a client made, with its outcome
    calls,            \* the number of calls the client has made
    batch,            \* the sprite2d::Batch of the client, once it has one
    sprite            \* the sprite2d::Frame of the client, once it has one

resourceVars == << textures, framebuffers, layouts, groups, uniforms, pipelines >>

backendVars == << mappings, trace >>

kitVars == << batch, sprite >>

vars ==
    << overflow_checks, panic, resourceVars, swap_chain, frames, backendVars,
       last, calls, kitVars >>

\* ------------------------------------------------------------------------
\* 32-bit arithmetic and conversions
\* ------------------------------------------------------------------------

\* `texels.len() as u32`: the cast keeps the low 32 bits of the length
LenAsU32(texels) == Bytes(texels.quads % TwoPow30, texels.rem)

\* whether `w * h * 4` leaves the u32 range (w * h itself stays inside it for
\* the dimensions of the model)
TexelSizeOverflows(w, h) == w * h >= TwoPow30

\* `w * h * 4` on u32 where overflow wraps around
TexelSizeU32(w, h) == Bytes((w * h) % TwoPow30, 0)

\* `n as f32` for 0 <= n < 2^25: exact up to 2^24, then rounded to the
\* nearest even multiple of two (round half to even on a 24-bit significand)
AsF32(n) ==
    IF n <= TwoPow24 THEN n
    ELSE IF n % 2 = 0 THEN n
    ELSE IF (n + 1) % 4 = 0 THEN n + 1
    ELSE n - 1

\* ------------------------------------------------------------------------
\* Rect<T>, for T = i8
\* ------------------------------------------------------------------------

\* i8::MIN and i8::MAX
MinCoord == -(2^7)
MaxCoord == 2^7 - 1

\* the coordinates the rectangles are drawn from
Coords == { MinCoord, MinCoord + 1, -1, 0, 1, MaxCoord }

\* rectangles that are wide and flat, or flat and high
Rects ==
    [x1 : Coords, y1 : { 0 }, x2 : Coords, y2 : { 0 }]
        \cup [x1 : { 0 }, y1 : Coords, x2 : { 0 }, y2 : Coords]

\* whether a result is outside T
Overflows(n) == n < MinCoord \/ n > MaxCoord

\* the two's complement value a result wraps to in a build without overflow
\* checks
Wrap(n) == ((n - MinCoord) % 2^8) + MinCoord

\* the body Rect::width and Rect::height share: `let w = b - a; if w <
\* T::zero() { -w } else { w }`; the panic it ends in, or the value returned
AbsDiff(a, b) ==
    LET w == Wrap(b - a)
    IN  IF overflow_checks /\ Overflows(b - a)
        THEN [panic |-> "attempt to subtract with overflow", value |-> None]
        ELSE IF w < 0
        THEN IF overflow_checks /\ Overflows(-w)
             THEN [panic |-> "attempt to negate with overflow",
                   value |-> None]
             ELSE [panic |-> NoPanic, value |-> Some(Wrap(-w))]
        ELSE [panic |-> NoPanic, value |-> Some(w)]

\* Rect::width
RectWidth(r) == AbsDiff(r.x1, r.x2)

\* Rect::height
RectHeight(r) == AbsDiff(r.y1, r.y2)

\* ------------------------------------------------------------------------
\* Resources
\* ------------------------------------------------------------------------

Extent3d(w, h) == [width |-> w, height |-> h, depth |-> 1]

TextureRef(i) == [kind |-> "Texture", id |-> i]

FramebufferRef(i) == [kind |-> "Framebuffer", id |-> i]

UniformRef(i) == [kind |-> "UniformBuffer", id |-> i]

\* a Sampler the client holds; samplers carry no state the model reads
SamplerRef == [kind |-> "Sampler", id |-> 1]

\* Texture::rect
Rect(t) == [x1 |-> 0, y1 |-> 0, x2 |-> AsF32(t.w), y2 |-> AsF32(t.h)]

\* Framebuffer::size, in u32 elements; w * h stays inside u32 in the model
Size(fb) == fb.w * fb.h

\* Texture::blit: the one copy command an upload records
Blit(dst, w, h, extent, buffer) ==
    [ op |-> "copy_buffer_to_texture", src |-> buffer, dst |-> dst,
      row_pitch |-> 4 * w, image_height |-> h, extent |-> extent ]

\* Resource::prepare for &Texture and for &Framebuffer: the commands the
\* resource appends to the encoder
ResourcePrepare(r) ==
    IF r.kind = "Texture"
    THEN LET t == textures[r.id]
         IN  << Blit(r, t.w, t.h, t.extent, t.buffer) >>
    ELSE LET fb == framebuffers[r.id]
         IN  IF fb.buffer # None
             THEN << Blit(r, fb.w, fb.h, fb.extent, fb.buffer[1]) >>
             ELSE << >>

RECURSIVE PrepareAll(_)
\* the loop of Renderer::prepare over its resources, in list order
PrepareAll(resources) ==
    IF resources = << >> THEN << >>
    ELSE ResourcePrepare(Head(resources)) \o PrepareAll(Tail(resources))

\* ------------------------------------------------------------------------
\* Borrows
\* ------------------------------------------------------------------------

\* the Frames that have not been dropped
LiveFrames == { i \in 1..Len(frames) : frames[i].alive }

\* a Renderer that a live Frame would not borrow: the variant C4 is tested
\* against
RendererNeverBorrowed == TRUE

\* a Frame borrows its Renderer (and the Device in it) mutably for as long as
\* it lives, so no method of the Renderer or Device can be called meanwhile
RendererFree == LiveFrames = {}

Running == panic = NoPanic

\* one more call of a client that is still running, into the core: the values
\* of the kit are left alone
Call ==
    /\ Running
    /\ calls < MaxCalls
    /\ calls' = calls + 1
    /\ UNCHANGED kitVars

Created ==
    Len(textures) + Len(framebuffers) + Len(layouts) + Len(groups)
        + Len(uniforms) + Len(pipelines)

Submit(by, cmds) == [call |-> "submit", by |-> by, cmds |-> cmds]

\* ------------------------------------------------------------------------
\* Device: resource creation
\* ------------------------------------------------------------------------

\* the outcome of the checks Device::create_texture makes before it
\* allocates anything: NoPanic, or the panic message
CreateTextureCheck(texels, w, h) ==
    IF overflow_checks /\ TexelSizeOverflows(w, h)
    THEN "attempt to multiply with overflow"
    ELSE IF LenAsU32(texels) # TexelSizeU32(w, h)
    THEN "wrong texture width or height given"
    ELSE NoPanic

\* a create_texture that copies the texels into the image at once: the
\* variant C13 is tested against
CreateTextureUploading(texels, w, h) ==
    /\ Call /\ RendererFree
    /\ Created < MaxResources
    /\ CreateTextureCheck(texels, w, h) = NoPanic
    /\ textures' = Append(textures,
          [ w |-> w, h |-> h, extent |-> Extent3d(w, h), buffer |-> texels ])
    /\ trace' = Append(trace,
          Submit(0, << Blit(TextureRef(Len(textures) + 1), w, h,
                            Extent3d(w, h), texels) >>))
    /\ last' = [ op |-> "create_texture", texels |-> texels, w |-> w, h |-> h,
                 result |-> Some(Len(textures) + 1) ]
    /\ UNCHANGED << overflow_checks, panic, framebuffers, layouts, groups,
                    uniforms, pipelines, swap_chain, frames, mappings >>

\* Device::create_texture, also reached through Renderer::texture
CreateTexture(texels, w, h) ==
    /\ Call /\ RendererFree
    /\ Created < MaxResources
    /\ LET outcome == CreateTextureCheck(texels, w, h)
       IN  /\ panic' = outcome
           /\ textures' =
                IF outcome = NoPanic
                THEN Append(textures,
                        [ w |-> w, h |-> h, extent |-> Extent3d(w, h),
                          buffer |-> texels ])
                ELSE textures
           /\ last' = [ op |-> "create_texture", texels |-> texels,
                        w |-> w, h |-> h,
                        result |-> IF outcome = NoPanic
                                   THEN Some(Len(textures) + 1) ELSE None ]
    /\ UNCHANGED << overflow_checks, framebuffers, layouts, groups, uniforms,
                    pipelines, swap_chain, frames, backendVars >>

\* a staging buffer allocated whatever the texels: the variant C9 is tested
\* against
StagingBufferAlways(texels) == Some(texels)

\* the staging buffer Device::create_framebuffer allocates
StagingBuffer(texels) == IF IsEmpty(texels) THEN None ELSE Some(texels)

\* Device::create_framebuffer, also reached through Renderer::framebuffer
CreateFramebuffer(texels, w, h) ==
    /\ Call /\ RendererFree
    /\ Created < MaxResources
    /\ framebuffers' =
         Append(framebuffers,
            [ w |-> w, h |-> h, extent |-> Extent3d(w, h),
              buffer |-> StagingBuffer(texels) ])
    /\ last' = [ op |-> "create_framebuffer", texels |-> texels,
                 w |-> w, h |-> h, result |-> Some(Len(framebuffers) + 1) ]
    /\ UNCHANGED << overflow_checks, panic, textures, layouts, groups,
                    uniforms, pipelines, swap_chain, frames, backendVars >>

\* the slot lists the pipelines of the repository declare for their sets
SlotLists ==
    { << >>,
      << [binding |-> "UniformBuffer", stage |-> "Vertex"] >>,
      << [binding |-> "SampledTexture", stage |-> "Fragment"],
         [binding |-> "Sampler", stage |-> "Fragment"] >> }

SetIndices == 0..2

\* the loop of Device::create_binding_group_layout: slot k of the list
\* becomes binding number k (counted from 0)
LayoutBindings(slots) ==
    [ k \in 1..Len(slots) |->
        [ binding |-> k - 1, visibility |-> slots[k].stage,
          ty |-> slots[k].binding ] ]

\* the value Device::create_binding_group_layout returns
BindingGroupLayout(index, slots) ==
    LET bindings == LayoutBindings(slots)
    IN  [ set_index |-> index, size |-> Len(bindings), bindings |-> bindings ]

\* Device::create_binding_group_layout, called by a client
CreateBindingGroupLayout(index, slots) ==
    /\ Call /\ RendererFree
    /\ Created < MaxResources
    /\ layouts' = Append(layouts, BindingGroupLayout(index, slots))
    /\ last' = [ op |-> "create_binding_group_layout", index |-> index,
                 slots |-> slots, result |-> Some(Len(layouts) + 1) ]
    /\ UNCHANGED << overflow_checks, panic, textures, framebuffers, groups,
                    uniforms, pipelines, swap_chain, frames, backendVars >>

\* the uniform buffers a client made itself (those of a pipeline are private
\* fields of the pipeline)
ClientUniforms ==
    { u \in 1..Len(uniforms) :
        \A p \in 1..Len(pipelines) : pipelines[p].buf # Some(u) }

\* what a client can pass as a `&dyn Bind`
Bindables ==
    { TextureRef(i) : i \in 1..Len(textures) }
        \cup { FramebufferRef(i) : i \in 1..Len(framebuffers) }
        \cup { UniformRef(u) : u \in ClientUniforms }
        \cup { SamplerRef }

\* the lists of resources offered to create_binding_group: up to three long
BindLists ==
    UNION { [1..n -> Bindables] : n \in 0..3 }

\* Bind::binding(index) of a resource
Binding(b, index) == [binding |-> index, resource |-> b]

\* the loop of Device::create_binding_group: resource k of the list is bound
\* at index k (counted from 0)
GroupBindings(binds) ==
    [ k \in 1..Len(binds) |-> Binding(binds[k], k - 1) ]

\* an assertion that lets surplus resources through: the variant C5 is tested
\* against
CreateBindingGroupCheckAtLeast(layout, binds) ==
    IF Len(binds) < layout.size
    THEN "layout slot count does not match bindings"
    ELSE NoPanic

\* the assertion Device::create_binding_group opens with
CreateBindingGroupCheck(layout, binds) ==
    IF Len(binds) # layout.size
    THEN "layout slot count does not match bindings"
    ELSE NoPanic

\* the value Device::create_binding_group returns when its assertion holds
BindingGroup(layout, binds) ==
    [ set_index |-> layout.set_index, bindings |-> GroupBindings(binds) ]

\* Device::create_binding_group, also reached through Renderer::binding_group
CreateBindingGroup(l, binds) ==
    /\ Call /\ RendererFree
    /\ Created < MaxResources
    /\ l \in 1..Len(layouts)
    /\ LET outcome == CreateBindingGroupCheck(layouts[l], binds)
       IN  /\ panic' = outcome
           /\ groups' =
                IF outcome = NoPanic
                THEN Append(groups, BindingGroup(layouts[l], binds))
                ELSE groups
           /\ last' = [ op |-> "create_binding_group", layout |-> l,
                        binds |-> binds,
                        result |-> IF outcome = NoPanic
                                   THEN Some(Len(groups) + 1) ELSE None ]
    /\ UNCHANGED << overflow_checks, textures, framebuffers, layouts,
                    uniforms, pipelines, swap_chain, frames, backendVars >>

\* size_of::<sprite2d::Uniforms>(): two Matrix4<f32>
UniformsSize == 128

\* size_of::<Rgba>(): four f32
RgbaSize == 16

\* the lengths of the slices offered to create_uniform_buffer
ElementCounts == 0..2

\* Bind::binding of a UniformBuffer: the range of the buffer it exposes, as
\* << start, end >>
UniformRange(u) == << 0, u.size >>

\* Device::create_uniform_buffer, also reached through Renderer::uniform_buffer:
\* `elem` is size_of::<T>() and `len` is buf.len()
CreateUniformBuffer(elem, len) ==
    /\ Call /\ RendererFree
    /\ Created < MaxResources
    /\ uniforms' = Append(uniforms, [size |-> elem, elem |-> elem, len |-> len])
    /\ last' = [ op |-> "create_uniform_buffer", elem |-> elem, len |-> len,
                 result |-> Some(Len(uniforms) + 1) ]
    /\ UNCHANGED << overflow_checks, panic, textures, framebuffers, layouts,
                    groups, pipelines, swap_chain, frames, backendVars >>

\* ------------------------------------------------------------------------
\* Pipelines
\* ------------------------------------------------------------------------

UniformSet == << [binding |-> "UniformBuffer", stage |-> "Vertex"] >>

TextureSet ==
    << [binding |-> "SampledTexture", stage |-> "Fragment"],
       [binding |-> "Sampler", stage |-> "Fragment"] >>

\* core::Pipeline, kit::sprite2d::Pipeline and the example's
\* FramebufferPipeline
PipelineKinds == { "core", "sprite2d", "framebuffer" }

\* AbstractPipeline::description: the sets of the pipeline layout
PipelineSets(kind) ==
    CASE kind = "core" -> << >>
      [] kind = "sprite2d" -> << UniformSet, UniformSet, TextureSet >>
      [] kind = "framebuffer" -> << UniformSet, TextureSet >>

\* a pipeline layout whose sets are numbered from one: the variant C22 is
\* tested against
CreatePipelineLayoutFromOne(ss) ==
    [ i \in 1..Len(ss) |-> BindingGroupLayout(i, ss[i]) ]

\* Device::create_pipeline_layout
CreatePipelineLayout(ss) ==
    [ i \in 1..Len(ss) |-> BindingGroupLayout(i - 1, ss[i]) ]

SamplerSet == << [binding |-> "Sampler", stage |-> "Fragment"] >>

\* the lists of sets offered to create_pipeline_layout: up to two sets
SetLists == UNION { [1..n -> { UniformSet, SamplerSet }] : n \in 0..2 }

\* Device::create_pipeline_layout, called by a client, who keeps the layouts
\* of the PipelineLayout it gets
DeviceCreatePipelineLayout(ss) ==
    /\ Call /\ RendererFree
    /\ Created + Len(ss) <= MaxResources
    /\ layouts' = layouts \o CreatePipelineLayout(ss)
    /\ last' = [ op |-> "create_pipeline_layout", sets |-> ss ]
    /\ UNCHANGED << overflow_checks, panic, textures, framebuffers, groups,
                    uniforms, pipelines, swap_chain, frames, backendVars >>

\* the prepare contexts a client passes: () for core::Pipeline, a transform
\* for sprite2d, a colour for the FramebufferPipeline
Contexts(kind) ==
    CASE kind = "core" -> { "unit" }
      [] kind = "sprite2d" -> { "identity", "shear" }
      [] kind = "framebuffer" -> Colors

\* VertexFormat
VertexFormats == { "Float", "Float2", "Float3", "Float4", "UByte4" }

\* VertexFormat::bytesize
Bytesize(vf) ==
    CASE vf = "Float" -> 4
      [] vf = "Float2" -> 8
      [] vf = "Float3" -> 12
      [] vf = "Float4" -> 16
      [] vf = "UByte4" -> 4

\* VertexFormat::to_wgpu
FormatToWgpu(vf) == IF vf = "UByte4" THEN "Uchar4Norm" ELSE vf

\* VertexLayout::default
DefaultLayout == [wgpu_attrs |-> << >>, size |-> 0]

\* a loop body that takes the offset after it added the size: the variant C18
\* is tested against
VertexLayoutPushAfter(vl, vf) ==
    [ wgpu_attrs |->
          Append(vl.wgpu_attrs,
                 [ shader_location |-> Len(vl.wgpu_attrs),
                   offset |-> vl.size + Bytesize(vf),
                   format |-> FormatToWgpu(vf) ]),
      size |-> vl.size + Bytesize(vf) ]

\* the body of the loop of VertexLayout::from: push the attribute of one
\* format, then add the format's size
VertexLayoutPush(vl, vf) ==
    [ wgpu_attrs |->
          Append(vl.wgpu_attrs,
                 [ shader_location |-> Len(vl.wgpu_attrs),
                   offset |-> vl.size,
                   format |-> FormatToWgpu(vf) ]),
      size |-> vl.size + Bytesize(vf) ]

RECURSIVE VertexLayoutLoop(_, _)
\* the loop of VertexLayout::from over the formats left
VertexLayoutLoop(vl, formats) ==
    IF formats = << >> THEN vl
    ELSE VertexLayoutLoop(VertexLayoutPush(vl, Head(formats)), Tail(formats))

\* VertexLayout::from
VertexLayoutFrom(formats) == VertexLayoutLoop(DefaultLayout, formats)

\* AbstractPipeline::description: the vertex layout
PipelineFormats(kind) ==
    CASE kind = "core" -> << >>
      [] kind = "sprite2d" -> << "Float2", "Float2", "UByte4", "Float" >>
      [] kind = "framebuffer" -> << "Float2", "Float2" >>

\* ShaderStage
ShaderStages == { "Vertex", "Fragment", "Compute" }

\* the errors shaderc's compile_into_spirv can return
ShaderErrors ==
    { "CompilationError", "InvalidStage", "InvalidAssembly",
      "NullResultObject", "InternalError" }

\* the results of a compilation: the module, or an error with the compiler's
\* diagnostic text
CompileResults ==
    { [ok |-> TRUE] } \cup
    { [ok |-> FALSE, error |-> e, diagnostic |-> "diagnostic of " \o e] :
        e \in ShaderErrors }

\* the results the compilations of a pipeline's two shaders are drawn from: the
\* module, the error with its own arm in Device::create_shader, and one of
\* the errors of the catch-all arm
PipelineCompileResults ==
    { r \in CompileResults :
        r.ok \/ r.error \in { "CompilationError", "InternalError" } }

\* the match of Device::create_shader on the result: NoPanic, or the message
\* of the panic
CreateShaderCheck(result) ==
    IF result.ok THEN NoPanic
    ELSE IF result.error = "CompilationError" THEN result.diagnostic
    ELSE "not implemented"

\* kit::ortho: the orthographic projection of a width and a height
Ortho(w, h) == [ortho |-> << w, h >>]

\* the outcome of the two create_shader calls and of the assertion in setup
\* that Renderer::pipeline runs through, in that order
PipelineCheck(vs, fs, sets, u) ==
    IF CreateShaderCheck(vs) # NoPanic THEN CreateShaderCheck(vs)
    ELSE IF CreateShaderCheck(fs) # NoPanic THEN CreateShaderCheck(fs)
    ELSE IF sets = << >> THEN NoPanic
    ELSE CreateBindingGroupCheck(sets[1], << UniformRef(u) >>)

\* AbstractPipeline::setup of the three pipelines, around the compiled
\* core::Pipeline `wgpu`: core::Pipeline is that pipeline alone; the other two
\* make their uniform buffer u and bind it against set 0
PipelineSetup(kind, wgpu, sets, u, w, h) ==
    [ kind |-> kind, wgpu |-> wgpu, sets |-> sets,
      vertex_layout |-> VertexLayoutFrom(PipelineFormats(kind)),
      buf |-> IF kind = "core" THEN None ELSE Some(u),
      bindings |-> IF kind = "core" THEN None
                   ELSE Some(BindingGroup(sets[1], << UniformRef(u) >>)),
      width |-> IF kind = "core" THEN 0 ELSE w,
      height |-> IF kind = "core" THEN 0 ELSE h,
      ortho |-> IF kind = "sprite2d" THEN Some(Ortho(w, h)) ELSE None ]

\* Renderer::pipeline: the layout and the vertex layout are built from the
\* description, the two shaders are compiled, the pipeline is created and
\* AbstractPipeline::setup is run on it
RendererPipeline(kind, w, h) ==
    /\ Call /\ RendererFree
    /\ Created < MaxResources
    /\ \E vs, fs \in PipelineCompileResults :
         LET sets == CreatePipelineLayout(PipelineSets(kind))
             u == Len(uniforms) + 1
             elem == IF kind = "sprite2d" THEN UniformsSize ELSE RgbaSize
             outcome == PipelineCheck(vs, fs, sets, u)
             compiled == CreateShaderCheck(vs) = NoPanic
                            /\ CreateShaderCheck(fs) = NoPanic
         IN  /\ panic' = outcome
             /\ uniforms' =
                  IF compiled /\ kind # "core"
                  THEN Append(uniforms,
                          [size |-> elem, elem |-> elem, len |-> 1])
                  ELSE uniforms
             /\ pipelines' =
                  IF outcome = NoPanic
                  THEN Append(pipelines,
                          PipelineSetup(kind, Len(pipelines) + 1, sets, u,
                                        w, h))
                  ELSE pipelines
    /\ last' = [op |-> "pipeline", kind |-> kind, w |-> w, h |-> h]
    /\ UNCHANGED << overflow_checks, textures, framebuffers, layouts, groups,
                    swap_chain, frames, backendVars >>

\* a prepare that returns None when it was just called with the same context:
\* the variant C19 is tested against
PipelinePrepareOnChange(p, context) ==
    IF last.op = "prepare_pipeline" /\ last.context = context
            /\ pipelines[last.pipeline] = p
    THEN None
    ELSE IF p.kind = "core" THEN None
    ELSE Some([ buf |-> p.buf[1],
                elem |-> IF p.kind = "sprite2d" THEN UniformsSize
                         ELSE RgbaSize,
                unifs |-> << context >> ])

\* AbstractPipeline::prepare of the three pipelines: None, or the uniform
\* buffer to overwrite with the new contents and their element size
PipelinePrepare(p, context) ==
    CASE p.kind = "core" -> None
      [] p.kind = "sprite2d" ->
            Some([ buf |-> p.buf[1], elem |-> UniformsSize,
                   unifs |-> << [ transform |-> context,
                                  ortho |-> p.ortho[1] ] >> ])
      [] p.kind = "framebuffer" ->
            Some([ buf |-> p.buf[1], elem |-> RgbaSize,
                   unifs |-> << context >> ])

\* an AbstractPipeline::resize that also takes a new compiled pipeline: the
\* variant C16 is tested against
PipelineResizedAnew(p, w, h) ==
    [p EXCEPT !.wgpu = @ + 1, !.width = w, !.height = h]

\* AbstractPipeline::resize of the three pipelines: the pipeline afterwards
PipelineResized(p, w, h) ==
    CASE p.kind = "core" -> p
      [] p.kind = "sprite2d" ->
            [p EXCEPT !.width = w, !.height = h, !.ortho = Some(Ortho(w, h))]
      [] p.kind = "framebuffer" ->
            [p EXCEPT !.width = w, !.height = h]

\* Frame::prepare takes `pip: &'a T` for the lifetime 'a of the Frame, so a
\* pipeline a live Frame was prepared with cannot be borrowed mutably
PipelineFree(i) == \A f \in LiveFrames : i \notin frames[f].pips

\* AbstractPipeline::resize, called by the client on pipeline i
PipelineResize(i, w, h) ==
    /\ Call
    /\ i \in 1..Len(pipelines)
    /\ PipelineFree(i)
    /\ pipelines' = [pipelines EXCEPT ![i] = PipelineResized(@, w, h)]
    /\ last' = [op |-> "resize_pipeline", pipeline |-> i, w |-> w, h |-> h]
    /\ UNCHANGED << overflow_checks, panic, textures, framebuffers, layouts,
                    groups, uniforms, swap_chain, frames, backendVars >>

\* ------------------------------------------------------------------------
\* Renderer
\* ------------------------------------------------------------------------

\* a descriptor with the two dimensions exchanged: the variant C15 is tested
\* against
SwapChainDescriptorTransposed(w, h) ==
    [ usage |-> "OUTPUT_ATTACHMENT", format |-> "Bgra8Unorm",
      width |-> h, height |-> w ]

\* swap_chain_descriptor
SwapChainDescriptor(w, h) ==
    [ usage |-> "OUTPUT_ATTACHMENT", format |-> "Bgra8Unorm",
      width |-> w, height |-> h ]

\* Device::create_swap_chain: the swap chain is known by its descriptor
CreateSwapChain(w, h) == SwapChainDescriptor(w, h)

\* whether the call before this one was Renderer::resize to the same size
ResizedJustBefore(w, h) ==
    /\ last.op = "resize"
    /\ last.w = w
    /\ last.h = h

\* Renderer::resize
RendererResize(w, h) ==
    /\ Call /\ RendererFree
    /\ swap_chain' = CreateSwapChain(w, h)
    /\ last' = [op |-> "resize", w |-> w, h |-> h,
                again |-> ResizedJustBefore(w, h)]
    /\ UNCHANGED << overflow_checks, panic, resourceVars, frames,
                    backendVars >>

\* the resource lists offered to Renderer::prepare: all of one type, up to
\* two long, repeats allowed
ResourceLists ==
    UNION { [1..n -> { TextureRef(i) : i \in 1..Len(textures) }] : n \in 0..2 }
        \cup
    UNION { [1..n -> { FramebufferRef(i) : i \in 1..Len(framebuffers) }] :
                n \in 0..2 }

\* a Renderer::prepare that submits one command buffer per resource: the
\* variant C12 is tested against
RendererPrepareEach(resources) ==
    /\ Call /\ RendererFree
    /\ trace' = trace \o
          [ k \in 1..Len(resources) |->
                Submit(0, ResourcePrepare(resources[k])) ]
    /\ last' = [op |-> "prepare", resources |-> resources]
    /\ UNCHANGED << overflow_checks, panic, resourceVars, swap_chain,
                    frames, mappings >>

\* Renderer::prepare
RendererPrepare(resources) ==
    /\ Call /\ RendererFree
    /\ LET encoder == PrepareAll(resources)
       IN  trace' = Append(trace, Submit(0, encoder))
    /\ last' = [op |-> "prepare", resources |-> resources]
    /\ UNCHANGED << overflow_checks, panic, resourceVars, swap_chain,
                    frames, mappings >>

\* ------------------------------------------------------------------------
\* Frame and Pass
\* ------------------------------------------------------------------------

\* the render passes of Frame f that are still recording: the Pass values
\* that are alive
OpenPasses(f) ==
    { k \in 1..Len(frames[f].encoder) :
        /\ frames[f].encoder[k].op = "render_pass"
        /\ frames[f].encoder[k].recording }

\* a Frame that a live Pass would not borrow: the variant C3 is tested against
FrameNeverBorrowed(f) == TRUE

\* a Pass borrows its Frame mutably for as long as it lives, so no method of
\* the Frame can be called, and the Frame cannot be dropped, meanwhile
FrameFree(f) == OpenPasses(f) = {}

\* a call of a method of Frame f
CanRecord(f) ==
    /\ Call
    /\ f \in LiveFrames
    /\ FrameFree(f)

\* an encoder that takes a new command in front of the others: the variant
\* C14 is tested against
RecordFirst(f, cmd) ==
    [frames EXCEPT ![f].encoder = << cmd >> \o @]

\* the encoder of Frame f takes one more command, behind those it holds
Record(f, cmd) ==
    [frames EXCEPT ![f].encoder = Append(@, cmd)]

\* Renderer::frame and Frame::new
RendererFrame ==
    /\ Call /\ RendererFree
    /\ frames' = Append(frames,
          [ alive |-> TRUE, encoder |-> << >>, on_drop |-> << >>,
            pips |-> {},
            texture |-> [width |-> swap_chain.width,
                         height |-> swap_chain.height] ])
    /\ last' = [op |-> "frame", frame |-> Len(frames) + 1]
    /\ UNCHANGED << overflow_checks, panic, resourceVars, swap_chain,
                    backendVars >>

\* the copy Frame::update_uniform_buffer records: size_of::<T>() * buf.len()
\* bytes from a fresh staging buffer to offset 0 of u
UniformCopy(u, elem, buf) ==
    [ op |-> "copy_buffer_to_buffer", src |-> buf, src_offset |-> 0,
      dst |-> UniformRef(u), dst_offset |-> 0, size |-> elem * Len(buf) ]

\* the element slices a client passes to update_uniform_buffer
UniformSlices == { << "WHITE" >>, << "WHITE", "TRANSPARENT" >> }

\* Frame::update_uniform_buffer, called by a client
FrameUpdateUniformBuffer(f, u, buf) ==
    /\ CanRecord(f)
    /\ u \in ClientUniforms
    /\ frames' = Record(f, UniformCopy(u, RgbaSize, buf))
    /\ last' = [op |-> "update_uniform_buffer", frame |-> f, u |-> u, buf |-> buf]
    /\ UNCHANGED << overflow_checks, panic, resourceVars, swap_chain,
                    backendVars >>

\* whether the call before this one was Frame::prepare on the same Frame, with
\* the same pipeline and the same context
PreparedJustBefore(f, p, context) ==
    /\ last.op = "prepare_pipeline"
    /\ last.frame = f
    /\ last.pipeline = p
    /\ last.context = context

\* a Frame::prepare that calls the pipeline's prepare and loses the payload:
\* the variant C11 is tested against
FramePrepareDropsPayload(f, p, context) ==
    /\ CanRecord(f)
    /\ p \in 1..Len(pipelines)
    /\ context \in Contexts(pipelines[p].kind)
    /\ last' = [op |-> "prepare_pipeline", frame |-> f, pipeline |-> p,
                context |-> context,
                payload |-> PipelinePrepare(pipelines[p], context),
                again |-> PreparedJustBefore(f, p, context)]
    /\ frames' = [frames EXCEPT ![f].pips = @ \cup { p }]
    /\ UNCHANGED << overflow_checks, panic, resourceVars, swap_chain,
                    backendVars >>

\* Frame::prepare
FramePrepare(f, p, context) ==
    /\ CanRecord(f)
    /\ p \in 1..Len(pipelines)
    /\ context \in Contexts(pipelines[p].kind)
    /\ LET payload == PipelinePrepare(pipelines[p], context)
           recorded ==
                IF payload = None THEN frames
                ELSE Record(f, UniformCopy(payload[1].buf, payload[1].elem,
                                           payload[1].unifs))
       IN  /\ frames' = [recorded EXCEPT ![f].pips = @ \cup { p }]
           /\ last' = [op |-> "prepare_pipeline", frame |-> f, pipeline |-> p,
                       context |-> context, payload |-> payload,
                       again |-> PreparedJustBefore(f, p, context)]
    /\ UNCHANGED << overflow_checks, panic, resourceVars, swap_chain,
                    backendVars >>

\* the clear behaviours a caller can ask for (examples/offscreen.rs passes a
\* PassOp); Frame::pass and Frame::offscreen_pass take the colour alone
PassOps == { "Clear", "Load" }

\* the view of the image the Frame acquired from the swap chain
SwapChainView(f) == [kind |-> "SwapChainOutput", id |-> f]

\* Pass::begin: the render pass the encoder starts recording
PassBegin(view, clear_color) ==
    [ op |-> "render_pass", attachment |-> view, load_op |-> "Clear",
      store_op |-> "Store", clear_color |-> clear_color, cmds |-> << >>,
      recording |-> TRUE ]

\* Frame::pass; `wanted` is the behaviour the caller is after
FramePass(f, wanted, clear) ==
    /\ CanRecord(f)
    /\ frames' = Record(f, PassBegin(SwapChainView(f), clear))
    /\ last' = [ op |-> "pass", frame |-> f, wanted |-> wanted,
                 clear |-> clear, view |-> SwapChainView(f) ]
    /\ UNCHANGED << overflow_checks, panic, resourceVars, swap_chain,
                    backendVars >>

\* Frame::offscreen_pass; `wanted` is the behaviour the caller is after
FrameOffscreenPass(f, wanted, clear, fb) ==
    /\ CanRecord(f)
    /\ fb \in 1..Len(framebuffers)
    /\ frames' = Record(f, PassBegin(FramebufferRef(fb), clear))
    /\ last' = [ op |-> "pass", frame |-> f, wanted |-> wanted,
                 clear |-> clear, view |-> FramebufferRef(fb) ]
    /\ UNCHANGED << overflow_checks, panic, resourceVars, swap_chain,
                    backendVars >>

\* Pass::draw_buffer on the Pass k of Frame f
PassDrawBuffer(f, k, indices) ==
    /\ Call
    /\ f \in LiveFrames
    /\ k \in OpenPasses(f)
    /\ frames' = [frames EXCEPT ![f].encoder[k].cmds =
                     Append(@, [op |-> "draw", indices |-> indices,
                                instances |-> 1])]
    /\ last' = [op |-> "draw_buffer", frame |-> f, pass |-> k]
    /\ UNCHANGED << overflow_checks, panic, resourceVars, swap_chain,
                    backendVars >>

\* the dynamic offsets passed to Pass::apply_binding
OffsetLists == { << >>, << 0 >> }

\* Pass::apply_binding on the Pass k of Frame f, with binding group g
PassApplyBinding(f, k, g, offsets) ==
    /\ Call
    /\ f \in LiveFrames
    /\ k \in OpenPasses(f)
    /\ g \in 1..Len(groups)
    /\ frames' = [frames EXCEPT ![f].encoder[k].cmds =
                     Append(@, [ op |-> "set_bind_group",
                                 index |-> groups[g].set_index,
                                 group |-> g, offsets |-> offsets ])]
    /\ last' = [ op |-> "apply_binding", frame |-> f, pass |-> k,
                 group |-> g, offsets |-> offsets ]
    /\ UNCHANGED << overflow_checks, panic, resourceVars, swap_chain,
                    backendVars >>

\* the drop of the Pass k of Frame f, which ends the render pass
PassEnd(f, k) ==
    /\ Call
    /\ f \in LiveFrames
    /\ k \in OpenPasses(f)
    /\ frames' = [frames EXCEPT ![f].encoder[k].recording = FALSE]
    /\ last' = [op |-> "end_pass", frame |-> f, pass |-> k]
    /\ UNCHANGED << overflow_checks, panic, resourceVars, swap_chain,
                    backendVars >>

\* a read-back buffer sized in texels, not bytes: the variant C2 is tested
\* against
ReadbackSizeInTexels(fb) == Size(fb)

\* `4 * fb.size()`: the size in bytes of the read-back buffer
ReadbackSize(fb) == 4 * Size(fb)

\* Frame::read_async: the k-th call on Frame f makes buffer <<f, k>> and
\* registers callback <<f, k>>
FrameReadAsync(f, fb) ==
    /\ CanRecord(f)
    /\ fb \in 1..Len(framebuffers)
    /\ LET bytesize == ReadbackSize(framebuffers[fb])
           dst == << f, Len(frames[f].on_drop) + 1 >>
       IN  frames' =
             [frames EXCEPT
                ![f].encoder =
                    Append(@, [ op |-> "copy_texture_to_buffer",
                                src |-> FramebufferRef(fb), dst |-> dst,
                                row_pitch |-> 4 * framebuffers[fb].w,
                                image_height |-> framebuffers[fb].h,
                                extent |-> framebuffers[fb].extent ]),
                ![f].on_drop =
                    Append(@, [buf |-> dst, size |-> bytesize, f |-> dst])]
    /\ last' = [op |-> "read_async", frame |-> f, fb |-> fb]
    /\ UNCHANGED << overflow_checks, panic, resourceVars, swap_chain,
                    backendVars >>

\* the map_read_async calls the drop of Frame f makes, one per deferred
\* action, in the order of on_drop
MapCalls(f) ==
    [ k \in 1..Len(frames[f].on_drop) |->
        [ call |-> "map_read_async", by |-> f,
          buf |-> frames[f].on_drop[k].buf, start |-> 0,
          size |-> frames[f].on_drop[k].size, f |-> frames[f].on_drop[k].f ] ]

\* a drop that maps before it submits: the variant C1 is tested against
MapsBeforeSubmit(f) == MapCalls(f) \o << Submit(f, frames[f].encoder) >>

\* what the drop of Frame f asks of the backend, in order
DropCalls(f) == << Submit(f, frames[f].encoder) >> \o MapCalls(f)

\* impl Drop for Frame
FrameDrop(f) ==
    /\ Call
    /\ f \in LiveFrames
    /\ FrameFree(f)
    /\ trace' = trace \o DropCalls(f)
    /\ mappings' = mappings \o
          [ k \in 1..Len(frames[f].on_drop) |->
              [ buf |-> frames[f].on_drop[k].buf,
                size |-> frames[f].on_drop[k].size,
                f |-> frames[f].on_drop[k].f, status |-> "pending" ] ]
    /\ frames' = [frames EXCEPT ![f].alive = FALSE, ![f].encoder = << >>,
                                ![f].on_drop = << >>]
    /\ last' = [op |-> "drop", frame |-> f]
    /\ UNCHANGED << overflow_checks, panic, resourceVars, swap_chain >>

\* the backend completes mapping m: the closure given to map_read_async gets
\* Ok and calls the registered callback on the mapped u32 slice
MapReadOk(m) ==
    /\ Running
    /\ m \in 1..Len(mappings)
    /\ mappings[m].status = "pending"
    /\ mappings' = [mappings EXCEPT ![m].status = "done"]
    /\ trace' = Append(trace,
          [ call |-> "callback", by |-> mappings[m].buf[1],
            f |-> mappings[m].f, buf |-> mappings[m].buf,
            len |-> mappings[m].size \div 4 ])
    /\ UNCHANGED kitVars
    /\ UNCHANGED << overflow_checks, panic, resourceVars, swap_chain, frames,
                    last, calls >>

\* a failed mapping that hands the callback an empty slice and goes on: the
\* variant C21 is tested against
MapReadErrCallsBack(m) ==
    /\ Running
    /\ m \in 1..Len(mappings)
    /\ mappings[m].status = "pending"
    /\ mappings' = [mappings EXCEPT ![m].status = "failed"]
    /\ trace' = Append(trace,
          [ call |-> "callback", by |-> mappings[m].buf[1],
            f |-> mappings[m].f, buf |-> mappings[m].buf, len |-> 0 ])
    /\ UNCHANGED kitVars
    /\ UNCHANGED << overflow_checks, panic, resourceVars, swap_chain, frames,
                    last, calls >>

\* the backend fails mapping m: the closure gets Err and panics
MapReadErr(m) ==
    /\ Running
    /\ m \in 1..Len(mappings)
    /\ mappings[m].status = "pending"
    /\ mappings' = [mappings EXCEPT ![m].status = "failed"]
    /\ panic' = "BufferMapAsyncResult::Err"
    /\ UNCHANGED kitVars
    /\ UNCHANGED << overflow_checks, resourceVars, swap_chain, frames, trace,
                    last, calls >>

\* ------------------------------------------------------------------------
\* Calls of the functions that change nothing in the Renderer; they are not
\* counted among the calls of a run
\* ------------------------------------------------------------------------

\* a call of Rect::width
CallRectWidth(r) ==
    /\ Running
    /\ panic' = RectWidth(r).panic
    /\ last' = [op |-> "width", rect |-> r, result |-> RectWidth(r).value]
    /\ UNCHANGED kitVars
    /\ UNCHANGED << overflow_checks, resourceVars, swap_chain, frames,
                    backendVars, calls >>

\* a call of Rect::height
CallRectHeight(r) ==
    /\ Running
    /\ panic' = RectHeight(r).panic
    /\ last' = [op |-> "height", rect |-> r, result |-> RectHeight(r).value]
    /\ UNCHANGED kitVars
    /\ UNCHANGED << overflow_checks, resourceVars, swap_chain, frames,
                    backendVars, calls >>

\* a call of Device::create_shader, which leaves the Device as it is; the
\* compiler's result is the backend's choice
CreateShader(stage, result) ==
    /\ Running /\ RendererFree
    /\ panic' = CreateShaderCheck(result)
    /\ last' = [ op |-> "create_shader", stage |-> stage, compiled |-> result,
                 result |-> IF result.ok THEN Some([stage |-> stage])
                            ELSE None ]
    /\ UNCHANGED kitVars
    /\ UNCHANGED << overflow_checks, resourceVars, swap_chain, frames,
                    backendVars, calls >>

\* the lists of vertex formats a description can give
FormatLists == UNION { [1..n -> VertexFormats] : n \in 0..MaxFormats }

\* VertexLayout::to_wgpu
VertexLayoutToWgpu(vl) ==
    [ stride |-> vl.size, step_mode |-> "Vertex",
      attributes |-> vl.wgpu_attrs ]

\* a call of VertexLayout::from, and of to_wgpu on its result
CallVertexLayoutFrom(formats) ==
    /\ Running
    /\ last' = [ op |-> "vertex_layout", formats |-> formats,
                 result |-> VertexLayoutFrom(formats),
                 wgpu |-> VertexLayoutToWgpu(VertexLayoutFrom(formats)) ]
    /\ UNCHANGED kitVars
    /\ UNCHANGED << overflow_checks, panic, resourceVars, swap_chain, frames,
                    backendVars, calls >>

\* ------------------------------------------------------------------------
\* kit::sprite2d: Batch
\* ------------------------------------------------------------------------

\* a call of a client that is still running, into the kit: the Renderer and
\* all it holds are left alone
KitCall ==
    /\ Running
    /\ calls < MaxCalls
    /\ calls' = calls + 1
    /\ UNCHANGED << overflow_checks, resourceVars, swap_chain, frames,
                    backendVars >>

\* Rect::new and Rect::origin, over f32
RectNew(x1, y1, x2, y2) == [x1 |-> x1, y1 |-> y1, x2 |-> x2, y2 |-> y2]

RectOrigin(w, h) == RectNew(0, 0, w, h)

\* Rect + Vector2
RectAdd(r, x, y) == RectNew(r.x1 + x, r.y1 + y, r.x2 + x, r.y2 + y)

\* Repeat::default()
RepeatDefault == [x |-> 1, y |-> 1]

\* Rgba8::from(Rgba)
ToRgba8(rgba) ==
    IF rgba = "WHITE" THEN << 255, 255, 255, 255 >> ELSE << 0, 0, 0, 0 >>

\* the sizes of the textures the batches are made for, the second with a
\* width that f32 cannot hold
BatchDims == { << 2, 1 >>, << 16777217, 1 >> }

\* the source rectangles offered to Batch::add, in f32: the whole of a 2 x 1
\* texture, its left half, and 16777216 x 1
SrcRects == { RectOrigin(2, 1), RectOrigin(1, 1), RectOrigin(16777216, 1) }

DstRects == { RectOrigin(4, 2) }

Repeats == { RepeatDefault, [x |-> 2, y |-> 2] }

\* the vectors offered to Batch::offset
Offsets == { << 1, 0 >> }

\* Batch::new
BatchValue(w, h) == [w |-> w, h |-> h, items |-> << >>, size |-> 0]

\* the assertion Batch::add opens with: the sizes of the texture are compared
\* as f32
BatchAddCheck(b, src, rep) ==
    IF rep # RepeatDefault /\ src # RectOrigin(AsF32(b.w), AsF32(b.h))
    THEN "using texture repeat is only valid when using the entire texture"
    ELSE NoPanic

\* an add that forgets to count the item: the variant C26 is tested against
BatchAddedUncounted(b, src, dst, rgba, opacity, rep) ==
    [ b EXCEPT !.items = Append(@, << src, dst, rgba, opacity, rep >>) ]

\* what Batch::add makes of the batch once its assertion holds
BatchAdded(b, src, dst, rgba, opacity, rep) ==
    [ b EXCEPT !.items = Append(@, << src, dst, rgba, opacity, rep >>),
               !.size = @ + 1 ]

\* `(x / w as f32) * rep`, as the term it is
TexCoord(x, w, rep) == [num |-> x, den |-> AsF32(w), times |-> rep]

Vertex(x, y, u, v, color, opacity) ==
    [position |-> << x, y >>, uv |-> << u, v >>, color |-> color,
     opacity |-> opacity]

\* the six vertices Batch::vertices makes of one item
ItemVertices(b, item) ==
    LET src == item[1]
        dst == item[2]
        c == ToRgba8(item[3])
        o == item[4]
        rep == item[5]
        rx1 == TexCoord(src.x1, b.w, rep.x)
        ry1 == TexCoord(src.y1, b.h, rep.y)
        rx2 == TexCoord(src.x2, b.w, rep.x)
        ry2 == TexCoord(src.y2, b.h, rep.y)
    IN  << Vertex(dst.x1, dst.y1, rx1, ry2, c, o),
           Vertex(dst.x2, dst.y1, rx2, ry2, c, o),
           Vertex(dst.x2, dst.y2, rx2, ry1, c, o),
           Vertex(dst.x1, dst.y1, rx1, ry2, c, o),
           Vertex(dst.x1, dst.y2, rx1, ry1, c, o),
           Vertex(dst.x2, dst.y2, rx2, ry1, c, o) >>

\* the loop of Batch::vertices over the first n items
RECURSIVE VerticesLoop(_, _)
VerticesLoop(b, n) ==
    IF n = 0 THEN << >>
    ELSE VerticesLoop(b, n - 1) \o ItemVertices(b, b.items[n])

\* Batch::vertices
Vertices(b) == VerticesLoop(b, Len(b.items))

\* Batch::new, called by a client, who keeps the batch
BatchNew(w, h) ==
    /\ KitCall
    /\ batch' = Some(BatchValue(w, h))
    /\ last' = [op |-> "batch_new", w |-> w, h |-> h]
    /\ UNCHANGED << panic, sprite >>

\* Batch::add
BatchAdd(src, dst, rgba, opacity, rep) ==
    /\ KitCall
    /\ batch # None
    /\ LET outcome == BatchAddCheck(batch[1], src, rep)
       IN  /\ panic' = outcome
           /\ batch' =
                IF outcome = NoPanic
                THEN Some(BatchAdded(batch[1], src, dst, rgba, opacity, rep))
                ELSE batch
    /\ last' = [op |-> "batch_add", src |-> src, dst |-> dst, rep |-> rep]
    /\ UNCHANGED sprite

\* Batch::singleton: Batch::new and then Batch::add
BatchSingleton(w, h, src, dst, rgba, opacity, rep) ==
    /\ KitCall
    /\ LET view == BatchValue(w, h)
           outcome == BatchAddCheck(view, src, rep)
       IN  /\ panic' = outcome
           /\ batch' =
                IF outcome = NoPanic
                THEN Some(BatchAdded(view, src, dst, rgba, opacity, rep))
                ELSE batch
    /\ last' = [ op |-> "batch_singleton", w |-> w, h |-> h, src |-> src,
                 dst |-> dst, rep |-> rep ]
    /\ UNCHANGED sprite

\* Batch::vertices, called by a client
BatchVertices ==
    /\ KitCall
    /\ batch # None
    /\ last' = [op |-> "batch_vertices", result |-> Vertices(batch[1])]
    /\ UNCHANGED << panic, kitVars >>

\* Batch::clear
BatchClear ==
    /\ KitCall
    /\ batch # None
    /\ batch' = Some([ batch[1] EXCEPT !.items = << >>, !.size = 0 ])
    /\ last' = [op |-> "batch_clear"]
    /\ UNCHANGED << panic, sprite >>

\* Batch::offset
BatchOffset(x, y) ==
    /\ KitCall
    /\ batch # None
    /\ batch' = Some([ batch[1] EXCEPT !.items =
                         [ k \in 1..Len(@) |->
                             [ @[k] EXCEPT ![2] = RectAdd(@, x, y) ] ] ])
    /\ last' = [op |-> "batch_offset", x |-> x, y |-> y]
    /\ UNCHANGED << panic, sprite >>

\* ------------------------------------------------------------------------
\* kit::sprite2d: Frame
\* ------------------------------------------------------------------------

\* a Matrix4<f32> is carried as the word of the factors it is the product of:
\* the identity is the empty word and `a * b` puts the factors of b behind
\* those of a
Identity == << >>

Mul(a, b) == a \o b

\* a matrix a client passes to Frame::transform
Matrices == { << [matrix |-> "m"] >> }

\* Matrix4::from_translation(Vector3::new(x, y, 0.))
FromTranslation(x, y) == << [translation |-> << x, y, 0 >>] >>

\* Matrix4::from_scale(s)
FromScale(s) == << [scale |-> s] >>

\* NonEmpty::last, NonEmpty::push and NonEmpty::pop; pop leaves the one
\* element of a list of one where it is
NonEmptyLast(s) == s[Len(s)]

NonEmptyPush(s, x) == Append(s, x)

NonEmptyPop(s) == IF Len(s) > 1 THEN SubSeq(s, 1, Len(s) - 1) ELSE s

\* the transform stacks a sprite Frame starts with
StartStacks == { << Identity >>, << Identity, FromScale(2) >> }

\* a sprite Frame handed to the client; `running` holds, for every call of
\* transform that has not returned yet, the stack as that call found it
SpriteFrame(transforms) ==
    /\ KitCall
    /\ sprite = None
    /\ sprite' = Some([ commands |-> << >>, transforms |-> transforms,
                        running |-> << >> ])
    /\ last' = [op |-> "sprite_frame"]
    /\ UNCHANGED << panic, batch >>

\* Frame::draw, called by the client or by a closure that is running
SpriteDraw(buffer, binding) ==
    /\ KitCall
    /\ sprite # None
    /\ sprite' = Some([ sprite[1] EXCEPT !.commands =
                          Append(@, << buffer, binding,
                                       NonEmptyLast(sprite[1].transforms) >>) ])
    /\ last' = [op |-> "draw", buffer |-> buffer, binding |-> binding]
    /\ UNCHANGED << panic, batch >>

\* Frame::transform up to the call of `inner`, which runs from here on;
\* `op` is the method the client called
SpriteTransformBegin(op, t) ==
    /\ KitCall
    /\ sprite # None
    /\ sprite' = Some([ sprite[1] EXCEPT
                          !.transforms =
                              NonEmptyPush(@, Mul(NonEmptyLast(@), t)),
                          !.running = Append(@, sprite[1].transforms) ])
    /\ last' = [op |-> op, t |-> t]
    /\ UNCHANGED << panic, batch >>

\* Frame::transform
SpriteTransform(t) == SpriteTransformBegin("transform", t)

\* Frame::translate
SpriteTranslate(x, y) == SpriteTransformBegin("translate", FromTranslation(x, y))

\* Frame::scale
SpriteScale(s) == SpriteTransformBegin("scale", FromScale(s))

\* a transform that returns without the pop: the variant C27 is tested
\* against
SpriteTransformEndKeeps ==
    /\ Running
    /\ sprite # None
    /\ sprite[1].running # << >>
    /\ sprite' = Some([ sprite[1] EXCEPT
                          !.running = SubSeq(@, 1, Len(@) - 1) ])
    /\ last' = [op |-> "return"]
    /\ UNCHANGED << overflow_checks, panic, resourceVars, swap_chain, frames,
                    backendVars, calls, batch >>

\* the innermost running `inner` returns and Frame::transform pops and
\* returns
SpriteTransformEnd ==
    /\ Running
    /\ sprite # None
    /\ sprite[1].running # << >>
    /\ sprite' = Some([ sprite[1] EXCEPT
                          !.transforms = NonEmptyPop(@),
                          !.running = SubSeq(@, 1, Len(@) - 1) ])
    /\ last' = [op |-> "return"]
    /\ UNCHANGED << overflow_checks, panic, resourceVars, swap_chain, frames,
                    backendVars, calls, batch >>

\* ------------------------------------------------------------------------
\* Specifications
\* ------------------------------------------------------------------------

\* the state Renderer::new leaves: a Device without resources and a swap
\* chain of the window's size; the build decides overflow_checks
Init ==
    /\ overflow_checks \in BOOLEAN
    /\ panic = NoPanic
    /\ textures = << >>
    /\ framebuffers = << >>
    /\ layouts = << >>
    /\ groups = << >>
    /\ swap_chain = SwapChainDescriptor(WindowSize[1], WindowSize[2])
    /\ uniforms = << >>
    /\ pipelines = << >>
    /\ frames = << >>
    /\ mappings = << >>
    /\ trace = << >>
    /\ last = [op |-> "new"]
    /\ calls = 0
    /\ batch = None
    /\ sprite = None

\* the Device as a resource factory, over the wide inputs
NextDevice ==
    \/ \E d \in WideDims, texels \in WideTexels :
            CreateTexture(texels, d[1], d[2])
    \/ \E d \in FramebufferDims, texels \in FramebufferTexels :
            CreateFramebuffer(texels, d[1], d[2])
    \/ \E index \in SetIndices, slots \in SlotLists :
            CreateBindingGroupLayout(index, slots)
    \/ \E l \in 1..Len(layouts), binds \in BindLists :
            CreateBindingGroup(l, binds)

SpecDevice == Init /\ [][NextDevice]_vars

\* the functions that change nothing, over their inputs
NextValues ==
    \/ \E r \in Rects : CallRectWidth(r)
    \/ \E r \in Rects : CallRectHeight(r)
    \/ \E formats \in FormatLists : CallVertexLayoutFrom(formats)
    \/ \E stage \in ShaderStages, result \in CompileResults :
            CreateShader(stage, result)

SpecValues == Init /\ [][NextValues]_vars

\* a client that makes pipeline layouts and binding groups and binds the
\* groups in the passes of its Frames
NextBinding ==
    \/ \E ss \in SetLists : DeviceCreatePipelineLayout(ss)
    \/ \E elem \in { RgbaSize, UniformsSize }, len \in ElementCounts :
            CreateUniformBuffer(elem, len)
    \/ \E l \in 1..Len(layouts), binds \in BindLists :
            CreateBindingGroup(l, binds)
    \/ RendererFrame
    \/ \E f \in LiveFrames, clear \in Colors : FramePass(f, "Clear", clear)
    \/ \E f \in LiveFrames : \E k \in OpenPasses(f) :
            \E g \in 1..Len(groups), offsets \in OffsetLists :
                PassApplyBinding(f, k, g, offsets)
    \/ \E f \in LiveFrames : \E k \in OpenPasses(f) : PassEnd(f, k)
    \/ \E f \in LiveFrames : FrameDrop(f)

SpecBinding == Init /\ [][NextBinding]_vars

\* a client of the sprite batch
NextBatch ==
    \/ \E d \in BatchDims : BatchNew(d[1], d[2])
    \/ \E src \in SrcRects, dst \in DstRects, rep \in Repeats :
            BatchAdd(src, dst, "WHITE", 1, rep)
    \/ \E d \in BatchDims, src \in SrcRects, dst \in DstRects, rep \in Repeats :
            BatchSingleton(d[1], d[2], src, dst, "WHITE", 1, rep)
    \/ BatchVertices
    \/ BatchClear
    \/ \E v \in Offsets : BatchOffset(v[1], v[2])

SpecBatch == Init /\ [][NextBatch]_vars

\* a client of the sprite Frame and the closures it passes
NextSprite ==
    \/ \E transforms \in StartStacks : SpriteFrame(transforms)
    \/ SpriteDraw("buffer", "binding")
    \/ \E t \in Matrices : SpriteTransform(t)
    \/ SpriteTranslate(1, 0)
    \/ SpriteScale(3)
    \/ SpriteTransformEnd

SpecSprite == Init /\ [][NextSprite]_vars

\* the whole program: a client that makes resources, prepares them and
\* records Frames, and the backend that completes the mappings
Next ==
    \/ CreateTexture(Bytes(2, 0), 2, 1)
    \/ \E texels \in { Bytes(0, 0), Bytes(2, 0) } :
            CreateFramebuffer(texels, 2, 1)
    \/ CreateUniformBuffer(RgbaSize, 1)
    \/ \E kind \in PipelineKinds :
            RendererPipeline(kind, swap_chain.width, swap_chain.height)
    \/ \E d \in WindowDims : RendererResize(d[1], d[2])
    \/ \E i \in 1..Len(pipelines), d \in WindowDims :
            PipelineResize(i, d[1], d[2])
    \/ \E resources \in ResourceLists : RendererPrepare(resources)
    \/ RendererFrame
    \/ \E f \in LiveFrames, u \in ClientUniforms, buf \in UniformSlices :
            FrameUpdateUniformBuffer(f, u, buf)
    \/ \E f \in LiveFrames, p \in 1..Len(pipelines) :
            \E context \in Contexts(pipelines[p].kind) :
                FramePrepare(f, p, context)
    \/ \E f \in LiveFrames, wanted \in PassOps, clear \in Colors :
            FramePass(f, wanted, clear)
    \/ \E f \in LiveFrames, wanted \in PassOps, clear \in Colors :
            \E fb \in 1..Len(framebuffers) :
                FrameOffscreenPass(f, wanted, clear, fb)
    \/ \E f \in LiveFrames : \E k \in OpenPasses(f) : PassDrawBuffer(f, k, 6)
    \/ \E f \in LiveFrames : \E k \in OpenPasses(f) : PassEnd(f, k)
    \/ \E f \in LiveFrames, fb \in 1..Len(framebuffers) : FrameReadAsync(f, fb)
    \/ \E f \in LiveFrames : FrameDrop(f)
    \/ \E m \in 1..Len(mappings) : MapReadOk(m)
    \/ \E m \in 1..Len(mappings) : MapReadErr(m)

Spec == Init /\ [][Next]_vars

\* ------------------------------------------------------------------------
\* Properties
\* ------------------------------------------------------------------------

\* a slice of exactly w * h * 4 bytes, the product taken in the integers
ExactTexels(texels, w, h) == texels.rem = 0 /\ texels.quads = w * h

\* C5: create_binding_group panics whenever the number of resources differs
\* from the number of slots the layout was created from; with exactly that
\* many it succeeds and binds the k-th resource at slot index k.
BindingGroupMatchesLayout ==
    /\ last.op = "create_binding_group_layout" =>
          LET layout == layouts[last.result[1]]
          IN  /\ layout.size = Len(last.slots)
              /\ Len(layout.bindings) = Len(last.slots)
              /\ \A k \in 1..Len(last.slots) :
                    /\ layout.bindings[k].binding = k - 1
                    /\ layout.bindings[k].ty = last.slots[k].binding
    /\ last.op = "create_binding_group" =>
          LET slots == Len(layouts[last.layout].bindings)
          IN  IF Len(last.binds) # slots
              THEN /\ panic # NoPanic
                   /\ last.result = None
              ELSE /\ panic = NoPanic
                   /\ last.result # None
                   /\ LET group == groups[last.result[1]]
                      IN  /\ Len(group.bindings) = slots
                          /\ \A k \in 1..slots :
                                /\ group.bindings[k].binding = k - 1
                                /\ group.bindings[k].resource = last.binds[k]

\* C5 witness: a group of two different resources was made against a layout
\* of two slots.
BindingGroupOfTwoMade ==
    /\ last.op = "create_binding_group"
    /\ last.result # None
    /\ Len(last.binds) = 2
    /\ last.binds[1] # last.binds[2]

\* C6: with a texel slice of exactly w * h * 4 bytes create_texture succeeds
\* and the texture has width w, height h and rect() = (0, 0, w, h).
ExactTexelsMakeTexture ==
    (last.op = "create_texture" /\ ExactTexels(last.texels, last.w, last.h)) =>
        /\ panic = NoPanic
        /\ last.result # None
        /\ LET t == textures[last.result[1]]
           IN  /\ t.w = last.w
               /\ t.h = last.h
               /\ Rect(t) = [x1 |-> 0, y1 |-> 0, x2 |-> last.w, y2 |-> last.h]

\* C7: with a texel slice of any other length create_texture panics and
\* produces no texture.
WrongTexelsMakeNoTexture ==
    (last.op = "create_texture" /\ ~ExactTexels(last.texels, last.w, last.h)) =>
        /\ panic # NoPanic
        /\ last.result = None

\* C8: with a non-empty texel slice of a length other than w * h * 4
\* create_framebuffer panics and produces no framebuffer.
WrongTexelsMakeNoFramebuffer ==
    ( /\ last.op = "create_framebuffer"
      /\ ~IsEmpty(last.texels)
      /\ ~ExactTexels(last.texels, last.w, last.h) ) =>
        /\ panic # NoPanic
        /\ last.result = None

\* the entries of the trace of one kind that Frame f caused (f = 0: the
\* Renderer itself), as positions and as a sequence
CallsBy(call, f) ==
    { i \in 1..Len(trace) : trace[i].call = call /\ trace[i].by = f }

CallSeqBy(call, f) ==
    SelectSeq(trace, LAMBDA e : e.call = call /\ e.by = f)

\* the read-back copies in a command buffer, in recording order
Readbacks(cmds) ==
    SelectSeq(cmds, LAMBDA c : c.op = "copy_texture_to_buffer")

Dropped == { f \in 1..Len(frames) : ~frames[f].alive }

\* C1: the drop of a Frame submits its finished encoder exactly once, whatever
\* was recorded, and only then asks for the mapping of each deferred read-back,
\* in registration order; a live Frame has submitted and mapped nothing, and
\* the deferred queue of a dropped Frame is empty.
DropSubmitsOnceThenMaps ==
    \A f \in 1..Len(frames) :
        IF frames[f].alive
        THEN /\ CallsBy("submit", f) = {}
             /\ CallsBy("map_read_async", f) = {}
        ELSE /\ Cardinality(CallsBy("submit", f)) = 1
             /\ frames[f].on_drop = << >>
             /\ LET s == CHOOSE i \in CallsBy("submit", f) : TRUE
                    reads == Readbacks(trace[s].cmds)
                    maps == CallSeqBy("map_read_async", f)
                IN  /\ \A c \in 1..Len(trace[s].cmds) :
                          trace[s].cmds[c].op = "render_pass" =>
                              ~trace[s].cmds[c].recording
                    /\ \A i \in CallsBy("map_read_async", f) : i > s
                    /\ Len(maps) = Len(reads)
                    /\ \A k \in 1..Len(reads) :
                          /\ maps[k].buf = reads[k].dst
                          /\ maps[k].f = << f, k >>

\* C1 witness: a Frame with two read-backs registered has been dropped.
FrameWithTwoReadbacksDropped ==
    \E f \in Dropped :
        /\ Len(CallSeqBy("map_read_async", f)) = 2
        /\ \E s \in CallsBy("submit", f) : Len(trace[s].cmds) = 2

\* the framebuffer the k-th read-back of a dropped Frame f copies from
ReadbackSource(f, k) ==
    LET s == CHOOSE i \in CallsBy("submit", f) : TRUE
    IN  framebuffers[Readbacks(trace[s].cmds)[k].src.id]

\* the number of times callback cb has been called
Invocations(cb) ==
    Cardinality({ i \in 1..Len(trace) :
                    trace[i].call = "callback" /\ trace[i].f = cb })

FrameState(f) ==
    IF ~frames[f].alive THEN "Submitted"
    ELSE IF OpenPasses(f) # {} THEN "InPass"
    ELSE "Open"

FrameTransitions ==
    { << "Open", "Open" >>, << "Open", "InPass" >>, << "InPass", "InPass" >>,
      << "InPass", "Open" >>, << "Open", "Submitted" >>,
      << "Submitted", "Submitted" >> }

\* what a step may do to Frame f
FrameStep(f) ==
    /\ << FrameState(f), FrameState(f)' >> \in FrameTransitions
    /\ Cardinality(OpenPasses(f)') <= 1
    /\ FrameState(f) = "InPass" =>
          /\ Len(frames'[f].encoder) = Len(frames[f].encoder)
          /\ frames'[f].on_drop = frames[f].on_drop
          /\ \A k \in 1..Len(frames[f].encoder) :
                k \notin OpenPasses(f) =>
                    frames'[f].encoder[k] = frames[f].encoder[k]
          /\ CallsBy("submit", f)' = {}
    /\ FrameState(f) = "Submitted" => frames'[f] = frames[f]

\* C3: a Frame starts Open and moves Open -> InPass -> Open -> ... ->
\* Submitted; at most one render pass records at a time; while a Pass is alive
\* nothing but that Pass records into the Frame and the Frame is not
\* submitted; a submitted Frame never changes again.
FrameLifeCycle ==
    [][ /\ Len(frames') >= Len(frames)
        /\ \A f \in 1..Len(frames) : FrameStep(f)
        /\ \A f \in (Len(frames) + 1)..Len(frames') : FrameState(f)' = "Open"
      ]_vars

\* C3 witness: a Frame was submitted after two render passes were begun and
\* ended on it, one after the other.
FrameSubmittedAfterTwoPasses ==
    \E s \in 1..Len(trace) :
        /\ trace[s].call = "submit"
        /\ trace[s].by # 0
        /\ Len(trace[s].cmds) = 2
        /\ \A k \in 1..2 :
              /\ trace[s].cmds[k].op = "render_pass"
              /\ ~trace[s].cmds[k].recording

\* the submissions Renderer::prepare has made
PrepareSubmits == Len(CallSeqBy("submit", 0))

\* C4: at most one Frame is alive at any time, and while a Frame is alive no
\* Renderer::frame, Renderer::prepare or Renderer::resize takes effect: no
\* Frame is added, nothing is submitted by prepare, the swap chain stays as it
\* is and the Device makes no resource.
OneFrameBorrowsRenderer ==
    [][ /\ Cardinality(LiveFrames') <= 1
        /\ LiveFrames # {} =>
              /\ Len(frames') = Len(frames)
              /\ PrepareSubmits' = PrepareSubmits
              /\ swap_chain' = swap_chain
              /\ Created' = Created
              /\ << textures, framebuffers, layouts, groups, uniforms >>'
                    = << textures, framebuffers, layouts, groups, uniforms >>
      ]_vars

\* C4 witness: a second Frame is alive after the first was dropped and the
\* Renderer was resized in between.
SecondFrameAfterFirstDropped ==
    /\ Len(frames) = 2
    /\ ~frames[1].alive
    /\ frames[2].alive
    /\ frames[2].texture # frames[1].texture

\* the entry of the trace the last Renderer::prepare made
LastPrepare ==
    trace[CHOOSE i \in CallsBy("submit", 0) :
            \A j \in CallsBy("submit", 0) : j <= i]

\* the framebuffers of a list that hold a staging buffer
WithStaging(resources) ==
    SelectSeq(resources, LAMBDA r : framebuffers[r.id].buffer # None)

\* C9: a Framebuffer holds a staging buffer exactly when it was created with
\* non-empty texels, and Renderer::prepare records one upload copy for each
\* framebuffer of its list that was, in list order, and nothing for the others.
StagingBufferIffTexels ==
    /\ last.op = "create_framebuffer" =>
          ( framebuffers[last.result[1]].buffer # None
                <=> ~IsEmpty(last.texels) )
    /\ \A i \in 1..Len(framebuffers) :
          framebuffers[i].buffer # None => ~IsEmpty(framebuffers[i].buffer[1])
    /\ ( /\ last.op = "prepare"
         /\ \A k \in 1..Len(last.resources) :
               last.resources[k].kind = "Framebuffer" ) =>
          LET cmds == LastPrepare.cmds
              with == WithStaging(last.resources)
          IN  /\ Len(cmds) = Len(with)
              /\ \A k \in 1..Len(with) :
                    /\ cmds[k].op = "copy_buffer_to_texture"
                    /\ cmds[k].dst = with[k]
                    /\ cmds[k].src = framebuffers[with[k].id].buffer[1]

\* C9 witness: a framebuffer made without texels and one made with texels
\* were prepared together.
MixedFramebuffersPrepared ==
    /\ last.op = "prepare"
    /\ Len(last.resources) = 2
    /\ last.resources[1].kind = "Framebuffer"
    /\ framebuffers[last.resources[1].id].buffer = None
    /\ framebuffers[last.resources[2].id].buffer # None

\* C10: a render pass opens with the clear behaviour the caller asked for:
\* cleared to the given colour, or loading what the target held before.
PassOpensAsWanted ==
    last.op = "pass" =>
        LET encoder == frames[last.frame].encoder
            begun == encoder[Len(encoder)]
        IN  /\ begun.load_op = last.wanted
            /\ last.wanted = "Clear" => begun.clear_color = last.clear

\* C11: Frame::prepare records exactly one uniform-buffer overwrite at the end
\* of the Frame's encoder when the pipeline's prepare returns a payload, and
\* leaves the encoder as it is when it returns None; either way the deferred
\* queue is unchanged and nothing is submitted or mapped.
FramePrepareRecordsPayload ==
    [][ (last'.op = "prepare_pipeline" /\ calls' # calls) =>
          LET f == last'.frame
              returned == last'.payload
              before == frames[f].encoder
              after == frames'[f].encoder
          IN  /\ trace' = trace
              /\ mappings' = mappings
              /\ frames'[f].alive
              /\ frames'[f].on_drop = frames[f].on_drop
              /\ \A g \in 1..Len(frames) : g # f => frames'[g] = frames[g]
              /\ (returned = None) <=>
                    (pipelines[last'.pipeline].kind = "core")
              /\ IF returned = None
                 THEN after = before
                 ELSE /\ Len(after) = Len(before) + 1
                      /\ SubSeq(after, 1, Len(before)) = before
                      /\ after[Len(after)].op = "copy_buffer_to_buffer"
                      /\ after[Len(after)].dst = UniformRef(returned[1].buf)
                      /\ after[Len(after)].dst_offset = 0
                      /\ after[Len(after)].src = returned[1].unifs
      ]_vars

\* C11 witness: a Frame that holds the overwrite of one pipeline's prepare was
\* then prepared with a pipeline whose prepare returns None.
PreparedWithAndWithoutPayload ==
    /\ last.op = "prepare_pipeline"
    /\ last.payload = None
    /\ Len(frames[last.frame].encoder) = 1
    /\ frames[last.frame].encoder[1].op = "copy_buffer_to_buffer"

\* the resources of a list that hold a staging buffer: every texture, and
\* the framebuffers made with texels
Staged(resources) ==
    SelectSeq(resources,
              LAMBDA r : r.kind = "Texture"
                            \/ framebuffers[r.id].buffer # None)

\* the staging buffer of a resource that holds one
StagingOf(r) ==
    IF r.kind = "Texture" THEN textures[r.id].buffer
    ELSE framebuffers[r.id].buffer[1]

\* C12: each Renderer::prepare makes exactly one submission, also for an
\* empty list; the command buffer submitted holds the upload copy of every
\* resource of the list, in list order; no Frame is alive, so no render pass
\* is open, and nothing else changes.
RendererPrepareSubmitsOnce ==
    [][ (last'.op = "prepare" /\ calls' # calls) =>
          /\ LiveFrames = {}
          /\ frames' = frames
          /\ mappings' = mappings
          /\ resourceVars' = resourceVars
          /\ Len(trace') = Len(trace) + 1
          /\ SubSeq(trace', 1, Len(trace)) = trace
          /\ LET submitted == trace'[Len(trace')]
                 staged == Staged(last'.resources)
             IN  /\ submitted.call = "submit"
                 /\ submitted.by = 0
                 /\ Len(submitted.cmds) = Len(staged)
                 /\ \A k \in 1..Len(staged) :
                       /\ submitted.cmds[k].op = "copy_buffer_to_texture"
                       /\ submitted.cmds[k].dst = staged[k]
                       /\ submitted.cmds[k].src = StagingOf(staged[k])
      ]_vars

\* C12 witness: a list of two different textures was prepared after an empty
\* list was.
TwoTexturesPreparedAfterNone ==
    /\ last.op = "prepare"
    /\ Len(last.resources) = 2
    /\ last.resources[1].kind = "Texture"
    /\ last.resources[1] # last.resources[2]
    /\ \E i \in CallsBy("submit", 0) : trace[i].cmds = << >>

\* the textures and framebuffers made so far
Images ==
    { TextureRef(t) : t \in 1..Len(textures) }
        \cup { FramebufferRef(fb) : fb \in 1..Len(framebuffers) }

\* the images that have been written from a staging buffer: the targets of
\* the upload copies in the command buffers submitted so far
Uploaded ==
    { r \in Images :
        \E i \in 1..Len(trace) :
            /\ trace[i].call = "submit"
            /\ \E k \in 1..Len(trace[i].cmds) :
                  /\ trace[i].cmds[k].op = "copy_buffer_to_texture"
                  /\ trace[i].cmds[k].dst = r }

\* the members of a sequence
Range(seq) == { seq[k] : k \in 1..Len(seq) }

\* C13: making a texture or a framebuffer uploads nothing; an image is
\* written from its staging buffer only by a Renderer::prepare whose list
\* holds it, so a resource never passed to prepare is never uploaded.
UploadOnlyByPrepare ==
    [][ IF last'.op = "prepare" /\ calls' # calls
        THEN Uploaded' = Uploaded \cup Range(Staged(last'.resources))
        ELSE /\ Uploaded' = Uploaded
             /\ Images' \ Images # {} => trace' = trace
      ]_vars

\* C13 witness: of two textures made, one was prepared and is uploaded and
\* the other is not.
OneTextureOfTwoUploaded ==
    /\ Len(textures) = 2
    /\ TextureRef(1) \in Uploaded
    /\ TextureRef(2) \notin Uploaded

\* what a step may do to the k-th command an encoder holds: nothing, or, to a
\* render pass that is recording, add commands behind those it holds or end it
SameCommand(before, after) ==
    \/ after = before
    \/ /\ before.op = "render_pass"
       /\ before.recording
       /\ after = [before EXCEPT !.cmds = after.cmds,
                                 !.recording = after.recording]
       /\ Len(after.cmds) >= Len(before.cmds)
       /\ SubSeq(after.cmds, 1, Len(before.cmds)) = before.cmds

\* the place in the trace of the submission of a dropped Frame
SubmitIndex(f) == CHOOSE i \in 1..Len(trace) :
                        trace[i].call = "submit" /\ trace[i].by = f

\* C14: a Frame's encoder keeps its commands in the order they were recorded
\* (a new command goes behind the others, none is moved or dropped), the drop
\* of the Frame submits exactly that sequence behind everything submitted
\* before, and so the command buffers of successive Frames are in the queue in
\* the order the Frames were dropped.
CommandsKeepRecordingOrder ==
    [][ /\ Len(trace') >= Len(trace)
        /\ SubSeq(trace', 1, Len(trace)) = trace
        /\ \A f \in 1..Len(frames) :
              IF frames[f].alive /\ frames'[f].alive
              THEN LET before == frames[f].encoder
                       after == frames'[f].encoder
                   IN  /\ Len(after) >= Len(before)
                       /\ \A k \in 1..Len(before) :
                             SameCommand(before[k], after[k])
              ELSE frames[f].alive =>
                      /\ Len(trace') > Len(trace)
                      /\ trace'[Len(trace) + 1]
                            = Submit(f, frames[f].encoder)
        /\ \A f, g \in Dropped' : f < g => SubmitIndex(f)' < SubmitIndex(g)'
      ]_vars

\* C14 witness: two Frames were dropped one after the other, the first with a
\* command recorded, and their command buffers are in the queue in that order.
TwoFramesSubmittedInOrder ==
    /\ Dropped = { 1, 2 }
    /\ trace[SubmitIndex(1)].cmds # << >>
    /\ SubmitIndex(1) < SubmitIndex(2)

\* the distance between two coordinates, in the integers
Distance(a, b) == IF b - a < 0 THEN a - b ELSE b - a

\* C17: for every Rect over a signed integer type, width() is |x2 - x1| and
\* height() is |y2 - y1|, neither negative, also when the difference reaches
\* the end of the type's range.
RectSizesAreDistances ==
    /\ last.op = "width" =>
          /\ panic = NoPanic
          /\ last.result = Some(Distance(last.rect.x1, last.rect.x2))
          /\ last.result[1] >= 0
    /\ last.op = "height" =>
          /\ panic = NoPanic
          /\ last.result = Some(Distance(last.rect.y1, last.rect.y2))
          /\ last.result[1] >= 0

RECURSIVE SumBytes(_, _)
\* the sum of the byte sizes of the first n formats of a list
SumBytes(formats, n) ==
    IF n = 0 THEN 0 ELSE SumBytes(formats, n - 1) + Bytesize(formats[n])

\* C18: VertexLayout::from gives attribute k shader location k and the sum of
\* the sizes of the formats before it as offset, so each offset is the one
\* before plus the size of the format before; the stride is the sum of all
\* the sizes.
VertexLayoutOffsetsAreSums ==
    last.op = "vertex_layout" =>
        LET attrs == last.wgpu.attributes
            formats == last.formats
        IN  /\ Len(attrs) = Len(formats)
            /\ \A k \in 1..Len(formats) :
                  /\ attrs[k].shader_location = k - 1
                  /\ attrs[k].format = FormatToWgpu(formats[k])
                  /\ attrs[k].offset = SumBytes(formats, k - 1)
                  /\ k > 1 => attrs[k].offset
                                = attrs[k - 1].offset + Bytesize(formats[k - 1])
            /\ last.wgpu.stride = SumBytes(formats, Len(formats))

\* C18 witness: the layout of the formats Float2, UByte4, Float3 was built,
\* with offsets 0, 8, 12 and stride 24.
MixedVertexLayoutBuilt ==
    /\ last.op = "vertex_layout"
    /\ last.formats = << "Float2", "UByte4", "Float3" >>
    /\ last.wgpu.attributes[2].offset = 8
    /\ last.wgpu.attributes[3].offset = 12
    /\ last.wgpu.stride = 24

\* C20: whenever the compilation of a shader fails, create_shader returns no
\* Shader and panics with the compiler's diagnostic text, whatever the kind
\* of the error.
ShaderFailureReportsDiagnostic ==
    (last.op = "create_shader" /\ ~last.compiled.ok) =>
        /\ last.result = None
        /\ panic = last.compiled.diagnostic

\* C15: after every Renderer::resize(w, h) the swap chain has width w and
\* height h, and a second resize to the same size leaves the swap chain as the
\* first left it.
ResizeIsIdempotent ==
    [][ (last'.op = "resize" /\ calls' # calls) =>
          /\ swap_chain'.width = last'.w
          /\ swap_chain'.height = last'.h
          /\ last'.again => swap_chain' = swap_chain
      ]_vars

\* C15 witness: the Renderer was resized twice in a row to a size that is not
\* the window's first size.
ResizedTwiceToNewSize ==
    /\ last.op = "resize"
    /\ last.again
    /\ << last.w, last.h >> # WindowSize
    /\ swap_chain = SwapChainDescriptor(last.w, last.h)

\* the fields of a pipeline that hold what depends on the width and height
Cached(p) == [width |-> p.width, height |-> p.height, ortho |-> p.ortho]

\* the fields of a pipeline made once: the compiled pipeline with its layouts,
\* the uniform buffer and the binding group
MadeOnce(p) ==
    [ kind |-> p.kind, wgpu |-> p.wgpu, sets |-> p.sets,
      vertex_layout |-> p.vertex_layout, buf |-> p.buf,
      bindings |-> p.bindings ]

\* C16: Renderer::resize replaces the swap chain and nothing else; the resize
\* of a pipeline changes no more than that pipeline's width, height and
\* orthographic projection, and leaves its compiled pipeline, uniform buffer
\* and binding group, every other pipeline and every resource as they are.
ResizeKeepsPipelines ==
    [][ /\ (last'.op = "resize" /\ calls' # calls) =>
              /\ resourceVars' = resourceVars
              /\ frames' = frames
              /\ backendVars' = backendVars
        /\ (last'.op = "resize_pipeline" /\ calls' # calls) =>
              /\ << textures, framebuffers, layouts, groups, uniforms >>'
                    = << textures, framebuffers, layouts, groups, uniforms >>
              /\ swap_chain' = swap_chain
              /\ backendVars' = backendVars
              /\ Len(pipelines') = Len(pipelines)
              /\ \A i \in 1..Len(pipelines) :
                    /\ MadeOnce(pipelines'[i]) = MadeOnce(pipelines[i])
                    /\ i # last'.pipeline => pipelines'[i] = pipelines[i]
      ]_vars

\* C16 witness: a sprite2d pipeline was resized to a size it was not made
\* with, and holds the projection of the new size.
SpritePipelineResized ==
    /\ last.op = "resize_pipeline"
    /\ pipelines[last.pipeline].kind = "sprite2d"
    /\ << last.w, last.h >> # WindowSize
    /\ Cached(pipelines[last.pipeline])
          = [ width |-> last.w, height |-> last.h,
              ortho |-> Some(Ortho(last.w, last.h)) ]

Settled(status) ==
    { m \in 1..Len(mappings) :
        mappings[m].status = "pending" /\ mappings'[m].status = status }

\* C21: the step in which a mapping fails ends the run with a panic and calls
\* no callback; a callback is called only in the step in which the mapping of
\* its own read-back succeeds, and never once the run has panicked.
FailedMapIsFatal ==
    [][ /\ Settled("failed") # {} =>
              (panic' # NoPanic /\ trace' = trace)
        /\ \A i \in (Len(trace) + 1)..Len(trace') :
              trace'[i].call = "callback" =>
                  /\ panic = NoPanic
                  /\ \E m \in Settled("done") : mappings[m].f = trace'[i].f
      ]_vars

\* C21 witness: of the two read-backs of a dropped Frame the mapping of one
\* succeeded, and its callback ran, and then the mapping of the other failed.
OneMappingFailedAfterOneDone ==
    /\ panic # NoPanic
    /\ \E m, n \in 1..Len(mappings) :
          /\ mappings[m].status = "done"
          /\ mappings[n].status = "failed"
          /\ mappings[m].buf[1] = mappings[n].buf[1]
          /\ Len(SelectSeq(trace, LAMBDA e : e.call = "callback")) = 1

\* the set_bind_group commands recorded in the render passes of the Frames
BoundGroups ==
    { c \in UNION { UNION { Range(frames[f].encoder[k].cmds) :
                              k \in { j \in 1..Len(frames[f].encoder) :
                                        frames[f].encoder[j].op = "render_pass" } } :
                      f \in 1..Len(frames) } :
        c.op = "set_bind_group" }

\* C22: create_pipeline_layout makes one layout per set, the i-th (counted
\* from 0) with set index i and as many slots as the set; a binding group
\* made against a layout has the set index of that layout; apply_binding
\* records one set_bind_group of the group at the set index of the group.
SetIndicesArePreserved ==
    [][ /\ (last'.op = "create_pipeline_layout" /\ calls' # calls) =>
              /\ Len(layouts') = Len(layouts) + Len(last'.sets)
              /\ SubSeq(layouts', 1, Len(layouts)) = layouts
              /\ \A i \in 1..Len(last'.sets) :
                    /\ layouts'[Len(layouts) + i].set_index = i - 1
                    /\ layouts'[Len(layouts) + i].size = Len(last'.sets[i])
        /\ ( /\ last'.op = "create_binding_group" /\ calls' # calls
             /\ last'.result # None ) =>
              /\ groups' = Append(groups, groups'[Len(groups')])
              /\ last'.result = Some(Len(groups'))
              /\ groups'[Len(groups')].set_index
                    = layouts[last'.layout].set_index
        /\ (last'.op = "apply_binding" /\ calls' # calls) =>
              LET before == frames[last'.frame].encoder[last'.pass].cmds
                  after == frames'[last'.frame].encoder[last'.pass].cmds
              IN  /\ Len(after) = Len(before) + 1
                  /\ SubSeq(after, 1, Len(before)) = before
                  /\ after[Len(after)].op = "set_bind_group"
                  /\ after[Len(after)].group = last'.group
                  /\ after[Len(after)].index = groups[last'.group].set_index
                  /\ groups' = groups
        /\ \A c \in BoundGroups' : c.index = groups'[c.group].set_index
      ]_vars

\* C22 witness: a group made against the second layout of a pipeline layout
\* of two sets was bound in a render pass, at set index 1.
SecondSetBound ==
    /\ last.op = "apply_binding"
    /\ Len(layouts) = 2
    /\ layouts[2].set_index = 1
    /\ groups[last.group].set_index = 1
    /\ \E c \in BoundGroups : c.group = last.group /\ c.index = 1

\* the copies into uniform buffers that the Frames hold or have submitted
UniformCopies ==
    { c \in UNION { Range(frames[f].encoder) : f \in 1..Len(frames) }
              \cup UNION { Range(trace[i].cmds) :
                             i \in { j \in 1..Len(trace) :
                                       trace[j].call = "submit" } } :
        c.op = "copy_buffer_to_buffer" /\ c.dst.kind = "UniformBuffer" }

\* C23: every copy into a uniform buffer that a Frame records starts at
\* offset 0 and is at most as long as the contents the buffer was created
\* with, element size times element count.
UniformCopiesFit ==
    \A c \in UniformCopies :
        /\ c.dst_offset = 0
        /\ c.size <= uniforms[c.dst.id].elem * uniforms[c.dst.id].len

\* C24: the size a UniformBuffer records, and the end of the range it exposes
\* when bound, is the byte size of the contents it was created with, element
\* size times element count.
UniformSizeIsContentSize ==
    \A u \in 1..Len(uniforms) :
        /\ uniforms[u].size = uniforms[u].elem * uniforms[u].len
        /\ UniformRange(uniforms[u])
              = << 0, uniforms[u].elem * uniforms[u].len >>

\* C25: the length check of create_texture lets through only slices of
\* exactly w * h * 4 bytes, the product taken in the integers: every texture
\* made holds texels of that length, also where w * h * 4 or the length of
\* the slice reaches 2^32.
TexelCheckIsExact ==
    /\ \A t \in 1..Len(textures) :
          ExactTexels(textures[t].buffer, textures[t].w, textures[t].h)
    /\ ( /\ last.op = "create_texture"
         /\ CreateTextureCheck(last.texels, last.w, last.h) = NoPanic ) =>
          ExactTexels(last.texels, last.w, last.h)

\* whether a call of add or singleton, on a batch of a w x h texture, asks
\* for a repeat without taking the whole texture as its source
RepeatsPart(call, w, h) ==
    /\ call.rep # RepeatDefault
    /\ call.src # RectOrigin(w, h)

\* C26: after every call the size of the batch is the number of its items;
\* clear leaves no item and size 0; offset changes neither; vertices returns
\* 6 * size vertices; an add (also the one of singleton) with a repeat other
\* than the default and a source other than the whole w x h texture panics
\* and leaves the batch as it was.
BatchSizeCountsItems ==
    [][ calls' # calls =>
          /\ batch' # None =>
                /\ batch'[1].size = Len(batch'[1].items)
                /\ last'.op = "batch_clear" =>
                      (batch'[1].size = 0 /\ batch'[1].items = << >>)
                /\ last'.op = "batch_offset" =>
                      /\ batch'[1].size = batch[1].size
                      /\ Len(batch'[1].items) = Len(batch[1].items)
                /\ last'.op = "batch_vertices" =>
                      /\ Len(last'.result) = 6 * batch'[1].size
                      /\ batch' = batch
          /\ ( /\ last'.op = "batch_add"
               /\ RepeatsPart(last', batch[1].w, batch[1].h) ) =>
                (panic' # NoPanic /\ batch' = batch)
          /\ ( /\ last'.op = "batch_singleton"
               /\ RepeatsPart(last', last'.w, last'.h) ) =>
                (panic' # NoPanic /\ batch' = batch)
      ]_vars

====
